---- MODULE Spec2Model ----
(***************************************************************************)
(* trello-watcher: the event router (index), the two event handlers        *)
(* (ListChange.Handle, CheckItemChange.Handle) and the two reconciliations *)
(* (SetupActiveProjectCard, StoreInactiveProjectCard), each as a sequence  *)
(* of steps, one step per remote call.  The board of the remote service    *)
(* (cards, check items, webhooks) is the shared state; a handler keeps its *)
(* locals (the lists it fetched, its loop position) in h[w].               *)
(*                                                                         *)
(* A list returned by the service is ordered by card id, so Find (first    *)
(* card of that name) is the matching card with the smallest id.  Every    *)
(* remote call may fail; MaxFailures bounds how many do, and no request is  *)
(* taken once that many have.                                              *)
(***************************************************************************)
EXTENDS Integers, Sequences, FiniteSets, TLC

\* ------------------------------------------------------------------ bounds
MaxChecklists == 2
MaxItems == 2
MaxTotalItems == 3
MaxInitCards == 2
MaxEvents == 2
MaxFailures == 1

MaxCards == MaxInitCards + MaxChecklists * MaxItems

Names == {"A", "B"}
ItemStates == {"complete", "incomplete"}
Workers == {"w1", "w2"}

\* Ids are numbers: the tracking cards first, then the project cards, then the
\* two lists that get a webhook.
CardIds == 1..MaxCards
NoCard == 0
P1 == MaxCards + 1
P2 == MaxCards + 2
ProjectIds == {P1, P2}
DoneId == MaxCards + 3
ActiveId == MaxCards + 4

\* The five lists of the board; a list's id is its name here.
ProjectsList == "Projects"
ActiveList == "Active"
ToDoList == "To Do"
DoneList == "Done"
StorageList == "Storage"
TrackLists == {ToDoList, DoneList, StorageList}

VARIABLES
  cardName,    \* tracking card id -> its name
  cardList,    \* tracking card id -> the list it is in, "none" before it exists
  projList,    \* project card id -> "Projects" or "Active"
  checklists,  \* project card id -> its checklists, each a sequence of items
  webhooks,    \* board.Webhooks: a sequence of [model, active]
  h,           \* worker -> the locals of the request it is handling
  last,        \* the request handled last: what it was and how it ended
  nEvents,     \* requests received so far
  nFail,       \* remote calls that failed so far
  files        \* the files RecordResponse wrote: [objType, objID, bytes]

vars == <<cardName, cardList, projList, checklists, webhooks, h, last, nEvents, nFail, files>>

\* ----------------------------------------------------------------- helpers
Min(S) == CHOOSE x \in S : \A y \in S : x <= y

SeqsUpTo(S, n) == UNION {[1..k -> S] : k \in 0..n}

Items == [name : Names, state : ItemStates]

CardsOn(l) == {c \in CardIds : cardList[c] = l}

\* trel Cards.Find / List.FindCard: the first card of that name, or NotFound.
Find(cs, name) ==
  LET m == {c \in cs : cardName[c] = name}
  IN  IF m = {} THEN NoCard ELSE Min(m)

\* Find over append(todoCards, doneCards...).
FindAppended(first, second, name) ==
  IF Find(first, name) # NoCard THEN Find(first, name) ELSE Find(second, name)

\* trel Webhooks.Find: the index of the first webhook for the model, 0 if none.
FindWebhook(ws, id) ==
  LET m == {i \in 1..Len(ws) : ws[i].model = id}
  IN  IF m = {} THEN 0 ELSE Min(m)

\* A variant of HasWebhook that never finds the webhook.
HasNoWebhook(id, ws) == FALSE

HasWebhook(id, ws) == FindWebhook(ws, id) # 0

\* A variant of SetActive that leaves the webhook as it is.
SetActiveNot(ws, id, b) == ws

\* Webhook.Activate / Webhook.Deactivate on the webhook Find returned.
SetActive(ws, id, b) ==
  LET i == FindWebhook(ws, id)
  IN  IF i = 0 THEN ws ELSE [ws EXCEPT ![i].active = b]

\* DefaultWebhook: a new webhook for the model, active as the service makes it.
DefaultWebhook(id) == [model |-> id, active |-> TRUE]

\* append(board.Webhooks, wh) written back: the slice as it was read, whatever
\* was appended to it since being lost, with the new webhook at its end. The
\* slice holds pointers, so an entry still in place shows its present state.
Appended(reg, id) ==
  Append([i \in 1..Len(reg) |->
            IF i <= Len(webhooks) /\ webhooks[i].model = reg[i].model
            THEN webhooks[i] ELSE reg[i]],
         DefaultWebhook(id))

DoneHookActive ==
  HasWebhook(DoneId, webhooks) /\ webhooks[FindWebhook(webhooks, DoneId)].active

\* ----------------------------------------------------------------- requests
NoReq ==
  [objType |-> "", before |-> "", after |-> "", card |-> NoCard, ciName |-> "", ciState |-> ""]

ListReq(b, a, c) ==
  [objType |-> "list", before |-> b, after |-> a, card |-> c, ciName |-> "", ciState |-> ""]

ItemReq(p, n, s) ==
  [objType |-> "card", before |-> "", after |-> "", card |-> p, ciName |-> n, ciState |-> s]

IsActivate(r) ==
  r.objType = "list" /\ r.after = ActiveList /\ r.before = ProjectsList

IsDeactivate(r) ==
  r.objType = "list" /\ r.after = ProjectsList /\ r.before = ActiveList

IsStorageMove(r) ==
  r.objType = "list" /\ (r.before = StorageList \/ r.after = StorageList)

\* ------------------------------------------------------------------ locals
\* The body of a POST: whether json.Unmarshal decodes it into a ListChange and
\* into a CheckItemChange, its bytes, and the fields the handlers read.
Body(l, i, t, b, a, c, n, s) ==
  [okList |-> l, okItem |-> i, text |-> t, before |-> b, after |-> a, card |-> c,
   ciName |-> n, ciState |-> s]

\* The request index serves: the captures of the path, the body, and rd, what
\* is left to read of r.Body.
NoHttp ==
  [objType |-> "", objID |-> NoCard, body |-> Body(FALSE, FALSE, "", "", "", NoCard, "", ""),
   rd |-> ""]

NoPre == [c \in CardIds |-> "none"]

Idle ==
  [pc |-> "idle", req |-> NoReq, chk |-> <<>>, sto |-> {}, todo |-> {}, done |-> {},
   cl |-> 0, ci |-> 0, tgt |-> NoCard, scan |-> <<>>, err |-> "nil", resp |-> 0,
   ops |-> <<>>, pre |-> NoPre, preItems |-> <<>>, preHooks |-> <<>>, failed |-> FALSE,
   suppressed |-> FALSE, rest |-> <<>>, http |-> NoHttp, reg |-> <<>>]

NoLast == [req |-> NoReq, err |-> "nil", pre |-> NoPre, ops |-> <<>>]

\* A variant of Response that answers 200, as index does for a HEAD request.
ResponseOK(e) == IF e = "nil" THEN 200 ELSE 500

\* index: 204 when the handler returned nil, 500 otherwise.
Response(e) == IF e = "nil" THEN 204 ELSE 500

\* The handler returns e: its locals are gone, what it did is kept.
Return(w, e) ==
  [h EXCEPT ![w] = [Idle EXCEPT !.pc = "done", !.err = e, !.resp = Response(e),
                                !.req = h[w].req, !.ops = h[w].ops, !.pre = h[w].pre,
                                !.preItems = h[w].preItems, !.preHooks = h[w].preHooks,
                                !.failed = h[w].failed,
                                !.suppressed = h[w].suppressed, !.rest = h[w].rest,
                                !.http = h[w].http]]

Goto(w, l) == [h EXCEPT ![w] = [@ EXCEPT !.pc = l]]

\* The outcomes of a remote call: TRUE it succeeds, FALSE it fails.
Outcomes == IF nFail < MaxFailures THEN {TRUE, FALSE} ELSE {TRUE}

Count(ok) == nFail' = IF ok THEN nFail ELSE nFail + 1

Failing(w, hh) == [hh EXCEPT ![w] = [@ EXCEPT !.failed = TRUE]]

\* An entry of the log of card operations a handler made.
Op(kind, c, from, to, cl) ==
  [op |-> kind, card |-> c, from |-> from, to |-> to, cl |-> cl, hook |-> DoneHookActive]

\* The handler's call of Deactivate on the Done list's webhook succeeded.
Suppressing(w, hh) == [hh EXCEPT ![w] = [@ EXCEPT !.suppressed = TRUE]]

Logged(w, hh, o) == [hh EXCEPT ![w] = [@ EXCEPT !.ops = Append(@, o)]]

FreeCards == {c \in CardIds : cardList[c] = "none"}

\* ------------------------------------------------------------------- index
\* index: a POST on /list/<id> is unmarshalled as a ListChange and handled, a
\* POST on /card/<id> as a CheckItemChange.
Receive(w, r) ==
  /\ h[w].pc = "idle"
  /\ nEvents < MaxEvents
  /\ nFail < MaxFailures
  /\ nEvents' = nEvents + 1
  /\ h' = [h EXCEPT ![w] =
             [Idle EXCEPT !.pc = IF r.objType = "list" THEN "lc_card" ELSE "cic",
                          !.req = r, !.pre = cardList, !.preItems = checklists,
                          !.preHooks = webhooks]]
  /\ UNCHANGED <<cardName, cardList, projList, checklists, webhooks, last, nFail>>
  /\ UNCHANGED files

\* index writes the response; the worker is free for the next request.
Respond(w) ==
  /\ h[w].pc = "done"
  /\ last' = [req |-> h[w].req, err |-> h[w].err, pre |-> h[w].pre, ops |-> h[w].ops]
  /\ h' = [h EXCEPT ![w] = Idle]
  /\ UNCHANGED <<cardName, cardList, projList, checklists, webhooks, nEvents, nFail>>
  /\ UNCHANGED files

\* ------------------------------------------------------- ListChange.Handle
IsToDoToDone(r) == r.after = DoneList /\ r.before = ToDoList

IsDoneToToDo(r) == r.after = ToDoList /\ r.before = DoneList

\* Where ListChange.Handle goes once the card is fetched; "done" is return nil.
Dispatch(r) ==
  IF r.before = StorageList \/ r.after = StorageList THEN "done"
  ELSE IF r.after = ActiveList /\ r.before = ProjectsList THEN "a_ensure"
  ELSE IF r.after = ProjectsList /\ r.before = ActiveList THEN "s_checklists"
  ELSE IF IsToDoToDone(r) \/ IsDoneToToDo(r) THEN "f_cards"
  ELSE "done"

ListChange_Handle(w) ==
  /\ h[w].pc = "lc_card"
  /\ \E ok \in Outcomes :
       /\ Count(ok)
       /\ h' = IF ~ok THEN Failing(w, Return(w, "Remote"))
               ELSE IF Dispatch(h[w].req) = "done" THEN Return(w, "nil")
               ELSE Goto(w, Dispatch(h[w].req))
  /\ UNCHANGED <<cardName, cardList, projList, checklists, webhooks, last, nEvents>>
  /\ UNCHANGED files

\* -------------------------------------------------- SetupActiveProjectCard
AllComplete(cl) == \A i \in 1..Len(cl) : cl[i].state # "incomplete"

\* Variants of SkipChecklist: no checklist is skipped; every one is.
SkipNever(cl) == FALSE

SkipAlways(cl) == TRUE

\* A checklist that gets no tracking cards.
SkipChecklist(cl) == AllComplete(cl)

\* A variant of Target that ignores the state of the item.
TargetToDo(ci) == ToDoList

Target(ci) == IF ci.state = "complete" THEN DoneList ELSE ToDoList

\* The first item at or after (cl, ci) of a checklist that is not skipped;
\* <<Len(chk) + 1, 1>> when the loops are over.
RECURSIVE ActPos(_, _, _)
ActPos(chk, cl, ci) ==
  IF cl > Len(chk) THEN <<Len(chk) + 1, 1>>
  ELSE IF SkipChecklist(chk[cl]) \/ ci > Len(chk[cl]) THEN ActPos(chk, cl + 1, 1)
  ELSE <<cl, ci>>

\* A variant of StorePos that ends the loops at once.
StoreEnd(chk, cl, ci) == <<Len(chk) + 1, 1>>

\* The loops of StoreInactiveProjectCard: every item of every checklist.
RECURSIVE StorePos(_, _, _)
StorePos(chk, cl, ci) ==
  IF cl > Len(chk) THEN <<Len(chk) + 1, 1>>
  ELSE IF ci > Len(chk[cl]) THEN StorePos(chk, cl + 1, 1)
  ELSE <<cl, ci>>

At(w, hh, pos, loop, after) ==
  [hh EXCEPT ![w] = [@ EXCEPT !.cl = pos[1], !.ci = pos[2],
                              !.pc = IF pos[1] > Len(h[w].chk) THEN after ELSE loop]]

\* card.Checklists()
ChecklistsOf(c) == IF c \in ProjectIds THEN checklists[c] ELSE <<>>

Setup_EnsureWebhook(w) ==
  /\ h[w].pc = "a_ensure"
  /\ h' = Goto(w, IF HasWebhook(h[w].req.card, webhooks) THEN "a_activate" ELSE "a_newhook")
  /\ UNCHANGED <<cardName, cardList, projList, checklists, webhooks, last, nEvents, nFail>>
  /\ UNCHANGED files

\* DefaultWebhook(trelClient, "card", card.ID), and the read of board.Webhooks
\* by append.
Setup_NewWebhook(w) ==
  /\ h[w].pc = "a_newhook"
  /\ \E ok \in Outcomes :
       /\ Count(ok)
       /\ h' = IF ok THEN [h EXCEPT ![w] = [@ EXCEPT !.reg = webhooks, !.pc = "a_append"]]
               ELSE Failing(w, Return(w, "Remote"))
  /\ UNCHANGED <<cardName, cardList, projList, checklists, webhooks, last, nEvents>>
  /\ UNCHANGED files

\* board.Webhooks = append(board.Webhooks, wh): the write.
Setup_AppendWebhook(w) ==
  /\ h[w].pc = "a_append"
  /\ webhooks' = Appended(h[w].reg, h[w].req.card)
  /\ h' = Goto(w, "a_activate")
  /\ UNCHANGED <<cardName, cardList, projList, checklists, last, nEvents, nFail>>
  /\ UNCHANGED files

Setup_ActivateWebhook(w) ==
  /\ h[w].pc = "a_activate"
  /\ IF ~HasWebhook(h[w].req.card, webhooks)
     THEN /\ h' = Return(w, "NotFound")
          /\ UNCHANGED <<webhooks, nFail>>
     ELSE \E ok \in Outcomes :
            /\ Count(ok)
            /\ webhooks' = IF ok THEN SetActive(webhooks, h[w].req.card, TRUE) ELSE webhooks
            /\ h' = IF ok THEN Goto(w, "a_checklists") ELSE Failing(w, Return(w, "Remote"))
  /\ UNCHANGED <<cardName, cardList, projList, checklists, last, nEvents>>
  /\ UNCHANGED files

Setup_Checklists(w) ==
  /\ h[w].pc = "a_checklists"
  /\ \E ok \in Outcomes :
       /\ Count(ok)
       /\ h' = IF ok
               THEN [h EXCEPT ![w] = [@ EXCEPT !.chk = ChecklistsOf(h[w].req.card),
                                               !.pc = "a_storage"]]
               ELSE Failing(w, Return(w, "Remote"))
  /\ UNCHANGED <<cardName, cardList, projList, checklists, webhooks, last, nEvents>>
  /\ UNCHANGED files

Setup_StorageCards(w) ==
  /\ h[w].pc = "a_storage"
  /\ \E ok \in Outcomes :
       /\ Count(ok)
       /\ h' = IF ok
               THEN [h EXCEPT ![w] = [@ EXCEPT !.sto = CardsOn(StorageList), !.pc = "a_todo"]]
               ELSE Failing(w, Return(w, "Remote"))
  /\ UNCHANGED <<cardName, cardList, projList, checklists, webhooks, last, nEvents>>
  /\ UNCHANGED files

Setup_ToDoCards(w) ==
  /\ h[w].pc = "a_todo"
  /\ \E ok \in Outcomes :
       /\ Count(ok)
       /\ h' = IF ok
               THEN [h EXCEPT ![w] = [@ EXCEPT !.todo = CardsOn(ToDoList), !.pc = "a_done"]]
               ELSE Failing(w, Return(w, "Remote"))
  /\ UNCHANGED <<cardName, cardList, projList, checklists, webhooks, last, nEvents>>
  /\ UNCHANGED files

Setup_DoneCards(w) ==
  /\ h[w].pc = "a_done"
  /\ \E ok \in Outcomes :
       /\ Count(ok)
       /\ h' = IF ok
               THEN [h EXCEPT ![w] = [@ EXCEPT !.done = CardsOn(DoneList), !.pc = "a_deact"]]
               ELSE Failing(w, Return(w, "Remote"))
  /\ UNCHANGED <<cardName, cardList, projList, checklists, webhooks, last, nEvents>>
  /\ UNCHANGED files

\* wh.Deactivate() on the Done list's webhook; its error is dropped.
Setup_DeactivateDone(w) ==
  /\ h[w].pc = "a_deact"
  /\ IF ~HasWebhook(DoneId, webhooks)
     THEN /\ h' = At(w, h, ActPos(h[w].chk, 1, 1), "a_item", "a_react")
          /\ UNCHANGED <<webhooks, nFail>>
     ELSE \E ok \in Outcomes :
            /\ Count(ok)
            /\ webhooks' = IF ok THEN SetActive(webhooks, DoneId, FALSE) ELSE webhooks
            /\ h' = At(w, IF ok THEN Suppressing(w, h) ELSE Failing(w, h),
                       ActPos(h[w].chk, 1, 1), "a_item", "a_react")
  /\ UNCHANGED <<cardName, cardList, projList, checklists, last, nEvents>>
  /\ UNCHANGED files

\* One turn of the inner loop: the item at (cl, ci).
Setup_Item(w) ==
  /\ h[w].pc = "a_item"
  /\ LET ci == h[w].chk[h[w].cl][h[w].ci]
         c == Find(h[w].sto, ci.name)
         next == ActPos(h[w].chk, h[w].cl, h[w].ci + 1)
     IN  IF c = NoCard
         THEN IF Find(h[w].todo, ci.name) # NoCard \/ Find(h[w].done, ci.name) # NoCard
              THEN \* the card is on To Do or Done: return nil
                   /\ h' = Return(w, "nil")
                   /\ UNCHANGED <<cardName, cardList, nFail>>
              ELSE \* list.NewCard; on its failure the Find error is returned
                   /\ FreeCards # {}
                   /\ \E ok \in Outcomes :
                        /\ Count(ok)
                        /\ cardName' = IF ok THEN [cardName EXCEPT ![Min(FreeCards)] = ci.name]
                                       ELSE cardName
                        /\ cardList' = IF ok THEN [cardList EXCEPT ![Min(FreeCards)] = Target(ci)]
                                       ELSE cardList
                        /\ h' = IF ok
                                THEN At(w, Logged(w, h, Op("create", Min(FreeCards), "none",
                                                           Target(ci), h[w].cl)),
                                        next, "a_item", "a_react")
                                ELSE Failing(w, Return(w, "NotFound"))
         ELSE \* c.Move(list.ID)
              /\ \E ok \in Outcomes :
                   /\ Count(ok)
                   /\ cardList' = IF ok THEN [cardList EXCEPT ![c] = Target(ci)] ELSE cardList
                   /\ h' = IF ok
                           THEN At(w, Logged(w, h, Op("move", c, cardList[c], Target(ci),
                                                      h[w].cl)),
                                   next, "a_item", "a_react")
                           ELSE Failing(w, Return(w, "Remote"))
              /\ UNCHANGED cardName
  /\ UNCHANGED <<projList, checklists, webhooks, last, nEvents>>
  /\ UNCHANGED files

\* wh.Activate() on the Done list's webhook; its error is dropped.  return nil.
Setup_ReactivateDone(w) ==
  /\ h[w].pc = "a_react"
  /\ IF ~HasWebhook(DoneId, webhooks)
     THEN /\ h' = Return(w, "nil")
          /\ UNCHANGED <<webhooks, nFail>>
     ELSE \E ok \in Outcomes :
            /\ Count(ok)
            /\ webhooks' = IF ok THEN SetActive(webhooks, DoneId, TRUE) ELSE webhooks
            /\ h' = IF ok THEN Return(w, "nil") ELSE Failing(w, Return(w, "nil"))
  /\ UNCHANGED <<cardName, cardList, projList, checklists, last, nEvents>>
  /\ UNCHANGED files

\* ------------------------------------------------ StoreInactiveProjectCard
Store_Checklists(w) ==
  /\ h[w].pc = "s_checklists"
  /\ \E ok \in Outcomes :
       /\ Count(ok)
       /\ h' = IF ok
               THEN [h EXCEPT ![w] = [@ EXCEPT !.chk = ChecklistsOf(h[w].req.card),
                                               !.pc = "s_todo"]]
               ELSE Failing(w, Return(w, "Remote"))
  /\ UNCHANGED <<cardName, cardList, projList, checklists, webhooks, last, nEvents>>
  /\ UNCHANGED files

Store_ToDoCards(w) ==
  /\ h[w].pc = "s_todo"
  /\ \E ok \in Outcomes :
       /\ Count(ok)
       /\ h' = IF ok
               THEN [h EXCEPT ![w] = [@ EXCEPT !.todo = CardsOn(ToDoList), !.pc = "s_done"]]
               ELSE Failing(w, Return(w, "Remote"))
  /\ UNCHANGED <<cardName, cardList, projList, checklists, webhooks, last, nEvents>>
  /\ UNCHANGED files

Store_DoneCards(w) ==
  /\ h[w].pc = "s_done"
  /\ \E ok \in Outcomes :
       /\ Count(ok)
       /\ h' = IF ok
               THEN [h EXCEPT ![w] = [@ EXCEPT !.done = CardsOn(DoneList), !.pc = "s_deact"]]
               ELSE Failing(w, Return(w, "Remote"))
  /\ UNCHANGED <<cardName, cardList, projList, checklists, webhooks, last, nEvents>>
  /\ UNCHANGED files

\* wh.Deactivate() on the Done list's webhook; its error is dropped.
Store_DeactivateDone(w) ==
  /\ h[w].pc = "s_deact"
  /\ IF ~HasWebhook(DoneId, webhooks)
     THEN /\ h' = At(w, h, StorePos(h[w].chk, 1, 1), "s_item", "s_react")
          /\ UNCHANGED <<webhooks, nFail>>
     ELSE \E ok \in Outcomes :
            /\ Count(ok)
            /\ webhooks' = IF ok THEN SetActive(webhooks, DoneId, FALSE) ELSE webhooks
            /\ h' = At(w, IF ok THEN Suppressing(w, h) ELSE Failing(w, h),
                       StorePos(h[w].chk, 1, 1), "s_item", "s_react")
  /\ UNCHANGED <<cardName, cardList, projList, checklists, last, nEvents>>
  /\ UNCHANGED files

\* One turn of the inner loop: the item at (cl, ci).
Store_Item(w) ==
  /\ h[w].pc = "s_item"
  /\ LET ci == h[w].chk[h[w].cl][h[w].ci]
         c == FindAppended(h[w].todo, h[w].done, ci.name)
         next == StorePos(h[w].chk, h[w].cl, h[w].ci + 1)
     IN  IF c = NoCard
         THEN \* a missing card is ignored: continue
              /\ h' = At(w, h, next, "s_item", "s_react")
              /\ UNCHANGED <<cardList, nFail>>
         ELSE \* c.Move(board.Storage.ID)
              \E ok \in Outcomes :
                /\ Count(ok)
                /\ cardList' = IF ok THEN [cardList EXCEPT ![c] = StorageList] ELSE cardList
                /\ h' = IF ok
                        THEN At(w, Logged(w, h, Op("move", c, cardList[c], StorageList,
                                                   h[w].cl)),
                                next, "s_item", "s_react")
                        ELSE Failing(w, Return(w, "Remote"))
  /\ UNCHANGED <<cardName, projList, checklists, webhooks, last, nEvents>>
  /\ UNCHANGED files

\* wh.Activate() on the Done list's webhook; its error is dropped.
Store_ReactivateDone(w) ==
  /\ h[w].pc = "s_react"
  /\ IF ~HasWebhook(DoneId, webhooks)
     THEN /\ h' = Goto(w, "s_hook")
          /\ UNCHANGED <<webhooks, nFail>>
     ELSE \E ok \in Outcomes :
            /\ Count(ok)
            /\ webhooks' = IF ok THEN SetActive(webhooks, DoneId, TRUE) ELSE webhooks
            /\ h' = IF ok THEN Goto(w, "s_hook") ELSE Failing(w, Goto(w, "s_hook"))
  /\ UNCHANGED <<cardName, cardList, projList, checklists, last, nEvents>>
  /\ UNCHANGED files

\* The card's own webhook is deactivated if there is one.
Store_DeactivateWebhook(w) ==
  /\ h[w].pc = "s_hook"
  /\ IF ~HasWebhook(h[w].req.card, webhooks)
     THEN /\ h' = Return(w, "nil")
          /\ UNCHANGED <<webhooks, nFail>>
     ELSE \E ok \in Outcomes :
            /\ Count(ok)
            /\ webhooks' = IF ok THEN SetActive(webhooks, h[w].req.card, FALSE) ELSE webhooks
            /\ h' = IF ok THEN Return(w, "nil") ELSE Failing(w, Return(w, "Remote"))
  /\ UNCHANGED <<cardName, cardList, projList, checklists, last, nEvents>>
  /\ UNCHANGED files

\* -------------------------------------------------- CheckItemChange.Handle
\* Variants of the lists the two branches use.
CompleteSourceDone == DoneList

CompleteDestToDo == ToDoList

IncompleteDestDone == DoneList

\* complete: the card is looked for on To Do and moved to Done.
CompleteSource == ToDoList

CompleteDest == DoneList

\* incomplete: the card is looked for on Done, then on To Do, and is moved to
\* or made on To Do.
IncompleteSource == DoneList

IncompleteDest == ToDoList

\* The state decides the branch; any other state is a no-op.
CheckItem_Handle(w) ==
  /\ h[w].pc = "cic"
  /\ h' = IF h[w].req.ciState = "complete" THEN Goto(w, "c_find")
          ELSE IF h[w].req.ciState = "incomplete" THEN Goto(w, "i_done")
          ELSE Return(w, "nil")
  /\ UNCHANGED <<cardName, cardList, projList, checklists, webhooks, last, nEvents, nFail>>
  /\ UNCHANGED files

\* complete: board.ToDo.FindCard(ciName)
Complete_FindToDo(w) ==
  /\ h[w].pc = "c_find"
  /\ \E ok \in Outcomes :
       /\ Count(ok)
       /\ h' = IF ~ok THEN Failing(w, Return(w, "Remote"))
               ELSE IF Find(CardsOn(CompleteSource), h[w].req.ciName) = NoCard
                    THEN Return(w, "NotFound")
               ELSE [h EXCEPT ![w] = [@ EXCEPT !.pc = "c_move",
                                      !.tgt = Find(CardsOn(CompleteSource), h[w].req.ciName)]]
  /\ UNCHANGED <<cardName, cardList, projList, checklists, webhooks, last, nEvents>>
  /\ UNCHANGED files

\* complete: card.Move(board.Done.ID)
Complete_Move(w) ==
  /\ h[w].pc = "c_move"
  /\ \E ok \in Outcomes :
       /\ Count(ok)
       /\ cardList' = IF ok THEN [cardList EXCEPT ![h[w].tgt] = CompleteDest] ELSE cardList
       /\ h' = IF ok
               THEN Logged(w, Return(w, "nil"),
                           Op("move", h[w].tgt, cardList[h[w].tgt], CompleteDest, 0))
               ELSE Failing(w, Return(w, "Remote"))
  /\ UNCHANGED <<cardName, projList, checklists, webhooks, last, nEvents>>
  /\ UNCHANGED files

\* incomplete: board.Done.FindCard(ciName).  NotFound leads to the search of
\* To Do; any other error falls through to card.Move with the zero card.
Incomplete_FindDone(w) ==
  /\ h[w].pc = "i_done"
  /\ \E ok \in Outcomes :
       /\ Count(ok)
       /\ h' = IF ~ok
               THEN Failing(w, [h EXCEPT ![w] = [@ EXCEPT !.pc = "i_move", !.tgt = NoCard]])
               ELSE IF Find(CardsOn(IncompleteSource), h[w].req.ciName) = NoCard
                    THEN Goto(w, "i_todo")
               ELSE [h EXCEPT ![w] = [@ EXCEPT !.pc = "i_move",
                                      !.tgt = Find(CardsOn(IncompleteSource), h[w].req.ciName)]]
  /\ UNCHANGED <<cardName, cardList, projList, checklists, webhooks, last, nEvents>>
  /\ UNCHANGED files

\* incomplete: board.ToDo.FindCard(ciName); found is return nil, any error
\* leads to NewCard.
Incomplete_FindToDo(w) ==
  /\ h[w].pc = "i_todo"
  /\ \E ok \in Outcomes :
       /\ Count(ok)
       /\ h' = IF ~ok THEN Failing(w, Goto(w, "i_new"))
               ELSE IF Find(CardsOn(IncompleteDest), h[w].req.ciName) = NoCard
                    THEN Goto(w, "i_new")
               ELSE Return(w, "nil")
  /\ UNCHANGED <<cardName, cardList, projList, checklists, webhooks, last, nEvents>>
  /\ UNCHANGED files

\* incomplete: board.ToDo.NewCard(ciName, "", ""); its error is returned.
Incomplete_NewCard(w) ==
  /\ h[w].pc = "i_new"
  /\ FreeCards # {}
  /\ \E ok \in Outcomes :
       /\ Count(ok)
       /\ cardName' = IF ok THEN [cardName EXCEPT ![Min(FreeCards)] = h[w].req.ciName]
                      ELSE cardName
       /\ cardList' = IF ok THEN [cardList EXCEPT ![Min(FreeCards)] = IncompleteDest] ELSE cardList
       /\ h' = IF ok
               THEN Logged(w, Return(w, "nil"),
                           Op("create", Min(FreeCards), "none", IncompleteDest, 0))
               ELSE Failing(w, Return(w, "Remote"))
  /\ UNCHANGED <<projList, checklists, webhooks, last, nEvents>>
  /\ UNCHANGED files

\* incomplete: card.Move(board.ToDo.ID).  With the zero card (the search of
\* Done failed) no card moves and the service answers either way.
Incomplete_Move(w) ==
  /\ h[w].pc = "i_move"
  /\ IF h[w].tgt = NoCard
     THEN /\ \E e \in {"nil", "Remote"} : h' = Return(w, e)
          /\ UNCHANGED <<cardList, nFail>>
     ELSE \E ok \in Outcomes :
            /\ Count(ok)
            /\ cardList' = IF ok THEN [cardList EXCEPT ![h[w].tgt] = IncompleteDest] ELSE cardList
            /\ h' = IF ok
                    THEN Logged(w, Return(w, "nil"),
                                Op("move", h[w].tgt, cardList[h[w].tgt], IncompleteDest, 0))
                    ELSE Failing(w, Return(w, "Remote"))
  /\ UNCHANGED <<cardName, projList, checklists, webhooks, last, nEvents>>
  /\ UNCHANGED files

\* ------------------------------------------------------- FindListCheckItem
\* board.Active.Cards(), in the order the service lists them.
ActiveCards == SelectSeq(<<P1, P2>>, LAMBDA p : projList[p] = ActiveList)

\* card.Name of the card the list change is about.
NameOf(c) ==
  IF c \in CardIds THEN cardName[c] ELSE IF c = P1 THEN "P1" ELSE IF c = P2 THEN "P2" ELSE ""

\* A variant of FindItem that returns the last item of that name.
FindItemLast(cl, name) ==
  LET m == {i \in 1..Len(cl) : cl[i].name = name}
  IN  IF m = {} THEN 0 ELSE CHOOSE i \in m : \A j \in m : j <= i

\* CheckItems.Find: the index of the first item of that name, 0 if none.
FindItem(cl, name) ==
  LET m == {i \in 1..Len(cl) : cl[i].name = name}
  IN  IF m = {} THEN 0 ELSE Min(m)

\* The first checklist of cls that has an item of that name, 0 if none.
FindChecklist(cls, name) ==
  LET m == {k \in 1..Len(cls) : FindItem(cls[k], name) # 0}
  IN  IF m = {} THEN 0 ELSE Min(m)

Find_ActiveCards(w) ==
  /\ h[w].pc = "f_cards"
  /\ \E ok \in Outcomes :
       /\ Count(ok)
       /\ h' = IF ~ok THEN Failing(w, Return(w, "Remote"))
               ELSE IF ActiveCards = <<>> THEN Return(w, "NotFound")
               ELSE [h EXCEPT ![w] = [@ EXCEPT !.scan = ActiveCards, !.ci = 1, !.pc = "f_cl"]]
  /\ UNCHANGED <<cardName, cardList, projList, checklists, webhooks, last, nEvents>>
  /\ UNCHANGED files

\* c.Checklists() of the next card on Active, and the search of its items.
Find_Checklists(w) ==
  /\ h[w].pc = "f_cl"
  /\ LET p == h[w].scan[h[w].ci]
         k == FindChecklist(checklists[p], NameOf(h[w].req.card))
     IN  \E ok \in Outcomes :
           /\ Count(ok)
           /\ h' = IF ~ok THEN Failing(w, Return(w, "Remote"))
                   ELSE IF k # 0
                        THEN [h EXCEPT ![w] = [@ EXCEPT !.pc = "f_mark", !.cl = k,
                                 !.tgt = FindItem(checklists[p][k], NameOf(h[w].req.card))]]
                   ELSE IF h[w].ci < Len(h[w].scan)
                        THEN [h EXCEPT ![w] = [@ EXCEPT !.ci = @ + 1]]
                   ELSE Return(w, "NotFound")
  /\ UNCHANGED <<cardName, cardList, projList, checklists, webhooks, last, nEvents>>
  /\ UNCHANGED files

\* ci.Complete() after To Do -> Done, ci.Incomplete() after Done -> To Do.
Find_Mark(w) ==
  /\ h[w].pc = "f_mark"
  /\ LET p == h[w].scan[h[w].ci]
         s == IF IsToDoToDone(h[w].req) THEN "complete" ELSE "incomplete"
     IN  \E ok \in Outcomes :
           /\ Count(ok)
           /\ checklists' = IF ok
                            THEN [checklists EXCEPT ![p][h[w].cl][h[w].tgt].state = s]
                            ELSE checklists
           /\ h' = IF ok THEN Return(w, "nil") ELSE Failing(w, Return(w, "Remote"))
  /\ UNCHANGED <<cardName, cardList, projList, webhooks, last, nEvents>>
  /\ UNCHANGED files

\* ------------------------------------------------------------ initial board
\* The tracking cards on the board at the start: ids 1..n, each with a name
\* and on To Do, Done or Storage.
InitCardsUpTo(m) ==
  \E n \in 0..m :
    \E nm \in [1..n -> Names], ls \in [1..n -> TrackLists] :
      /\ cardName = [c \in CardIds |-> IF c <= n THEN nm[c] ELSE ""]
      /\ cardList = [c \in CardIds |-> IF c <= n THEN ls[c] ELSE "none"]

InitCards == InitCardsUpTo(MaxInitCards)

RECURSIVE TotalItems(_)
TotalItems(cls) == IF cls = <<>> THEN 0 ELSE Len(Head(cls)) + TotalItems(Tail(cls))

\* The checklists a project card may have at the start.
ChecklistSets ==
  {cls \in SeqsUpTo(SeqsUpTo(Items, MaxItems), MaxChecklists) :
     TotalItems(cls) <= MaxTotalItems}

\* The webhooks init() fetched: none, or the Done list's.
InitHooks == {<<>>, <<[model |-> DoneId, active |-> TRUE]>>}

InitLocals ==
  /\ h = [w \in Workers |-> Idle]
  /\ last = NoLast
  /\ nEvents = 0
  /\ nFail = 0
  /\ files = <<>>

\* ---------------------------------------------------------- reconciliation
\* The project card P1 is activated and deactivated.
InitRecon ==
  /\ InitCards
  /\ checklists \in [ProjectIds -> ChecklistSets]
  /\ checklists[P2] = <<>>
  /\ projList = [p \in ProjectIds |-> IF p = P1 THEN ActiveList ELSE ProjectsList]
  /\ webhooks \in InitHooks
  /\ InitLocals

ReconRequests ==
  {ListReq(ProjectsList, ActiveList, P1), ListReq(ActiveList, ProjectsList, P1)}

SetupActiveProjectCard(w) ==
  \/ Setup_EnsureWebhook(w)
  \/ Setup_NewWebhook(w)
  \/ Setup_AppendWebhook(w)
  \/ Setup_ActivateWebhook(w)
  \/ Setup_Checklists(w)
  \/ Setup_StorageCards(w)
  \/ Setup_ToDoCards(w)
  \/ Setup_DoneCards(w)
  \/ Setup_DeactivateDone(w)
  \/ Setup_Item(w)
  \/ Setup_ReactivateDone(w)

StoreInactiveProjectCard(w) ==
  \/ Store_Checklists(w)
  \/ Store_ToDoCards(w)
  \/ Store_DoneCards(w)
  \/ Store_DeactivateDone(w)
  \/ Store_Item(w)
  \/ Store_ReactivateDone(w)
  \/ Store_DeactivateWebhook(w)

NextRecon ==
  \/ \E r \in ReconRequests : Receive("w1", r)
  \/ ListChange_Handle("w1")
  \/ SetupActiveProjectCard("w1")
  \/ StoreInactiveProjectCard("w1")
  \/ Respond("w1")

SpecRecon == InitRecon /\ [][NextRecon]_vars

\* ------------------------------------------------------ check-item changes
\* Check items of P1 are reported complete, incomplete or in no known state.
InitItem ==
  /\ InitCards
  /\ checklists = [p \in ProjectIds |-> <<>>]
  /\ projList = [p \in ProjectIds |-> IF p = P1 THEN ActiveList ELSE ProjectsList]
  /\ webhooks \in InitHooks
  /\ InitLocals

ItemRequests == {ItemReq(P1, n, s) : n \in Names, s \in ItemStates \cup {""}}

CheckItemChange_Handle(w) ==
  \/ CheckItem_Handle(w)
  \/ Complete_FindToDo(w)
  \/ Complete_Move(w)
  \/ Incomplete_FindDone(w)
  \/ Incomplete_FindToDo(w)
  \/ Incomplete_NewCard(w)
  \/ Incomplete_Move(w)

NextItem ==
  \/ \E r \in ItemRequests : Receive("w1", r)
  \/ CheckItemChange_Handle("w1")
  \/ Respond("w1")

SpecItem == InitItem /\ [][NextItem]_vars

\* ------------------------------------------------------------ list changes
\* One list change, between any two of the five lists, of a project card or
\* of a tracking card.
Lists == {ProjectsList, ActiveList, ToDoList, DoneList, StorageList}

OneChecklist == {cls \in ChecklistSets : Len(cls) <= 1}

OneItem == {cls \in OneChecklist : TotalItems(cls) <= 1}

InitList ==
  /\ InitCardsUpTo(1)
  /\ checklists \in [ProjectIds -> OneChecklist]
  /\ checklists[P2] \in OneItem
  /\ projList \in [ProjectIds -> {ProjectsList, ActiveList}]
  /\ projList[P1] = ActiveList
  /\ webhooks = <<[model |-> DoneId, active |-> TRUE]>>
  /\ InitLocals

ListRequests ==
  {ListReq(b, a, c) : b \in Lists, a \in Lists,
                      c \in ProjectIds \cup {d \in CardIds : cardList[d] # "none"}}

FindListCheckItem(w) ==
  \/ Find_ActiveCards(w)
  \/ Find_Checklists(w)
  \/ Find_Mark(w)

NextList ==
  \/ \E r \in ListRequests : nEvents = 0 /\ Receive("w1", r)
  \/ ListChange_Handle("w1")
  \/ SetupActiveProjectCard("w1")
  \/ StoreInactiveProjectCard("w1")
  \/ FindListCheckItem("w1")
  \/ Respond("w1")

SpecList == InitList /\ [][NextList]_vars

\* ------------------------------------------------------------------ startup
\* main: the goroutine that runs SetupInitialWebhooks and then
\* SetupActiveProjectCard for every card on Active.
Starter == "w2"

\* The card main's loop hands to SetupActiveProjectCard.
BootReq(c) == [NoReq EXCEPT !.objType = "boot", !.card = c]

\* A webhook for a list is made if the registry has none; logger.Fatalln ends
\* the program when the call fails.
Boot_Ensure(w, from, id, new, to) ==
  /\ h[w].pc = from
  /\ h' = Goto(w, IF HasWebhook(id, webhooks) THEN to ELSE new)
  /\ UNCHANGED <<cardName, cardList, projList, checklists, webhooks, last, nEvents, nFail>>
  /\ UNCHANGED files

\* DefaultWebhook(trelClient, typ, id), and the read of board.Webhooks by
\* append.
Boot_NewWebhook(w, new, app) ==
  /\ h[w].pc = new
  /\ \E ok \in Outcomes :
       /\ Count(ok)
       /\ h' = IF ok THEN [h EXCEPT ![w] = [@ EXCEPT !.reg = webhooks, !.pc = app]]
               ELSE Failing(w, Goto(w, "fatal"))
  /\ UNCHANGED <<cardName, cardList, projList, checklists, webhooks, last, nEvents>>
  /\ UNCHANGED files

\* board.Webhooks = append(board.Webhooks, hook): the write.
Boot_Append(w, app, id, to) ==
  /\ h[w].pc = app
  /\ webhooks' = Appended(h[w].reg, id)
  /\ h' = Goto(w, to)
  /\ UNCHANGED <<cardName, cardList, projList, checklists, last, nEvents, nFail>>
  /\ UNCHANGED files

Boot_ActiveHook(w) ==
  \/ Boot_Ensure(w, "b_active", ActiveId, "b_active_new", "b_done")
  \/ Boot_NewWebhook(w, "b_active_new", "b_active_app")
  \/ Boot_Append(w, "b_active_app", ActiveId, "b_done")

Boot_DoneHook(w) ==
  \/ Boot_Ensure(w, "b_done", DoneId, "b_done_new", "b_cards")
  \/ Boot_NewWebhook(w, "b_done_new", "b_done_app")
  \/ Boot_Append(w, "b_done_app", DoneId, "b_cards")

\* board.Active.Cards(), for the loop over the cards and for main's own loop.
Boot_Cards(w, from, to) ==
  /\ h[w].pc = from
  /\ \E ok \in Outcomes :
       /\ Count(ok)
       /\ h' = IF ok THEN [h EXCEPT ![w] = [@ EXCEPT !.rest = ActiveCards, !.pc = to]]
               ELSE Failing(w, Goto(w, "fatal"))
  /\ UNCHANGED <<cardName, cardList, projList, checklists, webhooks, last, nEvents>>
  /\ UNCHANGED files

Boot_ActiveCards(w) == Boot_Cards(w, "b_cards", "b_hook")

\* One turn of the loop over the cards on Active: a webhook for the card is
\* made if the registry has none.
Boot_CardHook(w) ==
  /\ h[w].pc = "b_hook"
  /\ h' = IF h[w].rest = <<>> THEN Goto(w, "m_cards")
          ELSE IF HasWebhook(Head(h[w].rest), webhooks)
          THEN [h EXCEPT ![w] = [@ EXCEPT !.rest = Tail(@)]]
          ELSE Goto(w, "b_hook_new")
  /\ UNCHANGED <<cardName, cardList, projList, checklists, webhooks, last, nEvents, nFail>>
  /\ UNCHANGED files

Boot_NewCardHook(w) == Boot_NewWebhook(w, "b_hook_new", "b_hook_app")

Boot_AppendCardHook(w) ==
  /\ h[w].pc = "b_hook_app"
  /\ webhooks' = Appended(h[w].reg, Head(h[w].rest))
  /\ h' = [h EXCEPT ![w] = [@ EXCEPT !.rest = Tail(@), !.pc = "b_hook"]]
  /\ UNCHANGED <<cardName, cardList, projList, checklists, last, nEvents, nFail>>
  /\ UNCHANGED files

SetupInitialWebhooks(w) ==
  \/ Boot_ActiveHook(w)
  \/ Boot_DoneHook(w)
  \/ Boot_ActiveCards(w)
  \/ Boot_CardHook(w)
  \/ Boot_NewCardHook(w)
  \/ Boot_AppendCardHook(w)

Main_ActiveCards(w) == Boot_Cards(w, "m_cards", "m_next")

\* main's loop: SetupActiveProjectCard(card) for the next card, its error
\* dropped; the goroutine ends after the last card.
Main_Setup(w) ==
  /\ h[w].pc = "m_next"
  /\ h' = IF h[w].rest = <<>> THEN [h EXCEPT ![w] = [Idle EXCEPT !.pc = "booted"]]
          ELSE [h EXCEPT ![w] = [Idle EXCEPT !.pc = "a_ensure", !.req = BootReq(Head(h[w].rest)),
                                             !.rest = Tail(h[w].rest), !.pre = cardList,
                                             !.preItems = checklists, !.preHooks = webhooks]]
  /\ UNCHANGED <<cardName, cardList, projList, checklists, webhooks, last, nEvents, nFail>>
  /\ UNCHANGED files

Main_Next(w) ==
  /\ h[w].pc = "done"
  /\ h' = Goto(w, "m_next")
  /\ UNCHANGED <<cardName, cardList, projList, checklists, webhooks, last, nEvents, nFail>>
  /\ UNCHANGED files

Booted == h[Starter].pc = "booted"

\* The registry init() fetched: at most one webhook for each model, the
\* lists' webhooks active, a card's webhook active or not.
HookSets ==
  {SelectSeq(<<[model |-> ActiveId, active |-> TRUE], [model |-> DoneId, active |-> TRUE],
               [model |-> P1, active |-> a1], [model |-> P2, active |-> a2]>>,
             LAMBDA x : x.model \in ms) :
     ms \in SUBSET {ActiveId, DoneId, P1, P2}, a1 \in BOOLEAN, a2 \in BOOLEAN}

InitStart ==
  /\ InitCardsUpTo(1)
  /\ checklists \in [ProjectIds -> OneItem]
  /\ checklists[P2] = <<>>
  /\ projList \in [ProjectIds -> {ProjectsList, ActiveList}]
  /\ webhooks \in HookSets
  /\ h = [w \in Workers |-> IF w = Starter THEN [Idle EXCEPT !.pc = "b_active"] ELSE Idle]
  /\ last = NoLast
  /\ nEvents = 0
  /\ nFail = 0
  /\ files = <<>>

StartRequests ==
  {ListReq(b, a, p) : p \in ProjectIds,
                      b \in {ProjectsList, ActiveList}, a \in {ProjectsList, ActiveList}}

\* The startup pass, then activations and deactivations handled one at a time.
NextStart ==
  \/ SetupInitialWebhooks(Starter)
  \/ Main_ActiveCards(Starter)
  \/ Main_Setup(Starter)
  \/ SetupActiveProjectCard(Starter)
  \/ Main_Next(Starter)
  \/ \E r \in StartRequests : Booted /\ Receive("w1", r)
  \/ ListChange_Handle("w1")
  \/ SetupActiveProjectCard("w1")
  \/ StoreInactiveProjectCard("w1")
  \/ Respond("w1")

SpecStart == InitStart /\ [][NextStart]_vars

\* ------------------------------------------------------------------ routing
\* A variant of Route that goes by the shape of the body alone, the
\* list-change shape first.
RouteByShape(t, b) ==
  IF b.okList THEN "lc_card"
  ELSE IF b.okItem THEN "cic"
  ELSE "rec"

\* The handler index calls for a body read in full: the path type picks the
\* struct the body is unmarshalled into, and a body that does not unmarshal
\* into it goes to RecordResponse.
Route(t, b) ==
  IF t = "list" /\ b.okList THEN "lc_card"
  ELSE IF t = "card" /\ b.okItem THEN "cic"
  ELSE "rec"

\* What the handler gets of the body.
Decoded(t, b) ==
  IF Route(t, b) = "lc_card" THEN ListReq(b.before, b.after, b.card)
  ELSE IF Route(t, b) = "cic" THEN ItemReq(b.card, b.ciName, b.ciState)
  ELSE [NoReq EXCEPT !.objType = "raw"]

\* ioutil.ReadAll(r.Body): the bytes read and what is left of the reader.
ReadAll(rd) == [bytes |-> rd, rest |-> ""]

\* index for a POST on /<t>/<id>: the body is read, 500 if that fails, and
\* the request is handed to the handler Route names.
Index(w, t, id, b) ==
  /\ h[w].pc = "idle"
  /\ nEvents < MaxEvents
  /\ nFail < MaxFailures
  /\ nEvents' = nEvents + 1
  /\ \E readOk \in BOOLEAN :
       h' = [h EXCEPT ![w] =
               [Idle EXCEPT !.pc = IF readOk THEN Route(t, b) ELSE "done",
                            !.err = IF readOk THEN "nil" ELSE "Read",
                            !.resp = IF readOk THEN 0 ELSE 500,
                            !.failed = ~readOk,
                            !.req = IF readOk THEN Decoded(t, b) ELSE NoReq,
                            !.http = [objType |-> t, objID |-> id, body |-> b,
                                      rd |-> IF readOk THEN ReadAll(b.text).rest ELSE b.text],
                            !.pre = cardList, !.preItems = checklists,
                            !.preHooks = webhooks]]
  /\ UNCHANGED <<cardName, cardList, projList, checklists, webhooks, last, nFail, files>>

\* RecordResponse(objType, objID, r.Body): a temporary file is made and what
\* ReadAll gets from the reader is written to it.  ioutil.TempFile can fail
\* before there is a file, f.Write after.
RecordResponse(w) ==
  /\ h[w].pc = "rec"
  /\ \E ok \in Outcomes, made \in BOOLEAN :
       /\ Count(ok)
       /\ ok => made
       /\ files' = IF ok
                   THEN Append(files, [objType |-> h[w].http.objType, objID |-> h[w].http.objID,
                                       bytes |-> ReadAll(h[w].http.rd).bytes])
                   ELSE IF made
                   THEN Append(files, [objType |-> h[w].http.objType,
                                       objID |-> h[w].http.objID, bytes |-> ""])
                   ELSE files
       /\ h' = IF ok THEN Return(w, "nil") ELSE Failing(w, Return(w, "IO"))
  /\ UNCHANGED <<cardName, cardList, projList, checklists, webhooks, last, nEvents>>

\* The bodies posted: of either, both or neither shape.
Texts == {"x", "yy"}

RouteBodies ==
  {Body(l, i, t, ba[1], ba[2], P1, n, s) :
     l \in BOOLEAN, i \in BOOLEAN, t \in Texts, ba \in {<<"", "">>, <<ToDoList, StorageList>>},
     n \in {"", "A"}, s \in ItemStates \cup {""}}

InitRoute ==
  /\ InitCardsUpTo(1)
  /\ checklists = [p \in ProjectIds |-> <<>>]
  /\ projList = [p \in ProjectIds |-> IF p = P1 THEN ActiveList ELSE ProjectsList]
  /\ webhooks = <<[model |-> DoneId, active |-> TRUE]>>
  /\ InitLocals

\* One POST, on /list/<id> or /card/<id>.
NextRoute ==
  \/ \E t \in {"list", "card"}, id \in {P1, DoneId}, b \in RouteBodies :
       nEvents = 0 /\ Index("w1", t, id, b)
  \/ ListChange_Handle("w1")
  \/ CheckItemChange_Handle("w1")
  \/ RecordResponse("w1")
  \/ Respond("w1")

SpecRoute == InitRoute /\ [][NextRoute]_vars

\* ------------------------------------------------------------ startup alone
\* The registry init() fetched: at most one webhook for each model, any of
\* them active or not.
BootHookSets ==
  {SelectSeq(<<[model |-> ActiveId, active |-> a[1]], [model |-> DoneId, active |-> a[2]],
               [model |-> P1, active |-> a[3]], [model |-> P2, active |-> a[4]]>>,
             LAMBDA x : x.model \in ms) :
     ms \in SUBSET {ActiveId, DoneId, P1, P2}, a \in [1..4 -> BOOLEAN]}

InitBoot ==
  /\ InitCardsUpTo(1)
  /\ checklists \in [ProjectIds -> OneItem]
  /\ checklists[P2] = <<>>
  /\ projList \in [ProjectIds -> {ProjectsList, ActiveList}]
  /\ webhooks \in BootHookSets
  /\ h = [w \in Workers |-> IF w = Starter THEN [Idle EXCEPT !.pc = "b_active"] ELSE Idle]
  /\ last = NoLast
  /\ nEvents = 0
  /\ nFail = 0
  /\ files = <<>>

\* A user drags a project card from Projects to Active while the program
\* starts; the board is read anew by each call that fetches the list's cards.
User_MoveToActive ==
  /\ h[Starter].pc # "booted"
  /\ \E p \in ProjectIds :
       /\ projList[p] = ProjectsList
       /\ projList' = [projList EXCEPT ![p] = ActiveList]
  /\ UNCHANGED <<cardName, cardList, checklists, webhooks, h, last, nEvents, nFail>>
  /\ UNCHANGED files

\* The startup pass with no event arriving.
NextBoot ==
  \/ User_MoveToActive
  \/ SetupInitialWebhooks(Starter)
  \/ Main_ActiveCards(Starter)
  \/ Main_Setup(Starter)
  \/ SetupActiveProjectCard(Starter)
  \/ Main_Next(Starter)

SpecBoot == InitBoot /\ [][NextBoot]_vars

\* ------------------------------------------------- startup beside a handler
\* The server accepts requests while the startup goroutine runs: one list
\* change of a project card is handled beside the startup pass.
InitConc ==
  /\ InitCardsUpTo(1)
  /\ checklists \in [ProjectIds -> OneItem]
  /\ checklists[P2] = <<>>
  /\ projList = [p \in ProjectIds |-> IF p = P1 THEN ActiveList ELSE ProjectsList]
  /\ webhooks \in {ws \in HookSets : /\ HasWebhook(DoneId, ws) /\ ~HasWebhook(P2, ws)
                                     /\ \A i \in 1..Len(ws) : ws[i].active}
  /\ h = [w \in Workers |-> IF w = Starter THEN [Idle EXCEPT !.pc = "b_active"] ELSE Idle]
  /\ last = NoLast
  /\ nEvents = 0
  /\ nFail = 0
  /\ files = <<>>

NextConc ==
  \/ SetupInitialWebhooks(Starter)
  \/ Main_ActiveCards(Starter)
  \/ Main_Setup(Starter)
  \/ SetupActiveProjectCard(Starter)
  \/ Main_Next(Starter)
  \/ \E r \in StartRequests : nEvents = 0 /\ Receive("w1", r)
  \/ ListChange_Handle("w1")
  \/ SetupActiveProjectCard("w1")
  \/ StoreInactiveProjectCard("w1")
  \/ Respond("w1")

SpecConc == InitConc /\ [][NextConc]_vars

\* ------------------------------------------------------ events of own changes
\* A running board: P1 on Active with a checklist, tracking cards on the three
\* lists, the webhooks of the two lists and of P1 registered and active. A user
\* makes one change; the service delivers it, and after it every change that
\* the handler itself made on a model with an active webhook.
InitEcho ==
  /\ InitCards
  /\ checklists \in [ProjectIds -> OneChecklist]
  /\ checklists[P2] = <<>>
  /\ projList = [p \in ProjectIds |-> IF p = P1 THEN ActiveList ELSE ProjectsList]
  /\ webhooks = <<DefaultWebhook(ActiveId), DefaultWebhook(DoneId), DefaultWebhook(P1)>>
  /\ InitLocals

\* index has read request r; cl and it are the board as the handler finds it.
Delivered(w, r, cl, it) ==
  [h EXCEPT ![w] = [Idle EXCEPT !.pc = IF r.objType = "list" THEN "lc_card" ELSE "cic",
                                !.req = r, !.pre = cl, !.preItems = it,
                                !.preHooks = webhooks]]

\* A user drags a tracking card between To Do and Done; the Done list's
\* webhook posts the list change.
User_MoveCard(w) ==
  /\ h[w].pc = "idle"
  /\ nEvents = 0
  /\ DoneHookActive
  /\ \E c \in CardIds, to \in {ToDoList, DoneList} :
       /\ cardList[c] \in {ToDoList, DoneList} \ {to}
       /\ cardList' = [cardList EXCEPT ![c] = to]
       /\ h' = Delivered(w, ListReq(cardList[c], to, c), cardList', checklists)
  /\ nEvents' = 1
  /\ UNCHANGED <<cardName, projList, checklists, webhooks, last, nFail>>
  /\ UNCHANGED files

\* A user ticks or unticks a check item of P1; the card's webhook posts the
\* check item change.
User_MarkItem(w) ==
  /\ h[w].pc = "idle"
  /\ nEvents = 0
  /\ HasWebhook(P1, webhooks) /\ webhooks[FindWebhook(webhooks, P1)].active
  /\ \E cl \in 1..Len(checklists[P1]) :
       \E i \in 1..Len(checklists[P1][cl]) :
         LET it == checklists[P1][cl][i]
             s  == IF it.state = "complete" THEN "incomplete" ELSE "complete"
         IN  /\ checklists' = [checklists EXCEPT ![P1][cl][i].state = s]
             /\ h' = Delivered(w, ItemReq(P1, it.name, s), cardList, checklists')
  /\ nEvents' = 1
  /\ UNCHANGED <<cardName, cardList, projList, webhooks, last, nFail>>
  /\ UNCHANGED files

\* The event the service posts for what the handler that has returned did:
\* the check item it marked (a changed state, on a card with an active
\* webhook), or the card it moved between To Do and Done (the Done list's
\* webhook active); NoReq when it did neither.
EchoOf(w) ==
  IF h[w].req.objType = "list"
  THEN IF \E p \in ProjectIds :
            /\ checklists[p] # h[w].preItems[p]
            /\ HasWebhook(p, webhooks) /\ webhooks[FindWebhook(webhooks, p)].active
       THEN ItemReq(CHOOSE p \in ProjectIds : checklists[p] # h[w].preItems[p],
                    cardName[h[w].req.card],
                    IF IsToDoToDone(h[w].req) THEN "complete" ELSE "incomplete")
       ELSE NoReq
  ELSE IF DoneHookActive /\ \E j \in 1..Len(h[w].ops) : h[w].ops[j].op = "move"
       THEN LET o == h[w].ops[CHOOSE j \in 1..Len(h[w].ops) : h[w].ops[j].op = "move"]
            IN  ListReq(o.from, o.to, o.card)
       ELSE NoReq

\* index has answered and the service posts the event of the handler's change.
Echo(w) ==
  /\ h[w].pc = "done"
  /\ nFail < MaxFailures
  /\ EchoOf(w) # NoReq
  /\ last' = [req |-> h[w].req, err |-> h[w].err, pre |-> h[w].pre, ops |-> h[w].ops]
  /\ nEvents' = nEvents + 1
  /\ h' = Delivered(w, EchoOf(w), cardList, checklists)
  /\ UNCHANGED <<cardName, cardList, projList, checklists, webhooks, nFail>>
  /\ UNCHANGED files

\* index has answered and no event follows.
Settle(w) ==
  /\ EchoOf(w) = NoReq \/ nFail >= MaxFailures
  /\ Respond(w)

NextEcho ==
  \/ User_MoveCard("w1")
  \/ User_MarkItem("w1")
  \/ ListChange_Handle("w1")
  \/ FindListCheckItem("w1")
  \/ CheckItemChange_Handle("w1")
  \/ Echo("w1")
  \/ Settle("w1")

SpecEcho == InitEcho /\ [][NextEcho]_vars

\* ------------------------------------------------------------------ claims
Finished(w) == h[w].pc = "done"

Succeeded(w) == h[w].pc = "done" /\ h[w].err = "nil"

\* The checklists of the card the request is about, as they were on receipt.
ItemsAtStart(w) == h[w].preItems[h[w].req.card]

\* The names of the cards a placement puts on the given lists.
NamesOn(placing, ls) == {cardName[c] : c \in {d \in CardIds : placing[d] \in ls}}

\* The items of the checklists that are not entirely complete, in loop order.
RECURSIVE Tracked(_, _)
Tracked(cls, k) ==
  IF k > Len(cls) THEN <<>>
  ELSE (IF AllComplete(cls[k]) THEN <<>> ELSE cls[k]) \o Tracked(cls, k + 1)

ItemNames(cls) == UNION {{cls[k][i].name : i \in 1..Len(cls[k])} : k \in 1..Len(cls)}

TrackedNames(cls) == {Tracked(cls, 1)[j].name : j \in 1..Len(Tracked(cls, 1))}

\* The request being answered repeats the one handled just before it, which
\* returned nil.
RepeatsLast(w) == last.req = h[w].req /\ last.err = "nil"

\* C1: an activation reconciliation that follows a successful activation of
\* the same card, nothing else having happened in between, creates no card
\* and moves no card: every card is where the first run left it.
C1_ActivationIdempotent ==
  \A w \in Workers :
    (Succeeded(w) /\ IsActivate(h[w].req) /\ RepeatsLast(w))
      => (h[w].ops = <<>> /\ cardList = h[w].pre)

\* C2: when no card on Storage, To Do or Done has the name of an item of the
\* project, a successful activation creates one card per item of the
\* checklists that are not entirely complete, in Done for a complete item and
\* in To Do for an incomplete one, and moves nothing.
NoItemHasCard(w) ==
  ItemNames(ItemsAtStart(w)) \cap NamesOn(h[w].pre, TrackLists) = {}

C2_ActivationCreates ==
  \A w \in Workers :
    (Succeeded(w) /\ IsActivate(h[w].req) /\ NoItemHasCard(w))
      => LET want == Tracked(ItemsAtStart(w), 1)
             ops == h[w].ops
         IN  /\ Len(ops) = Len(want)
             /\ \A j \in 1..Len(ops) :
                  /\ ops[j].op = "create"
                  /\ h[w].pre[ops[j].card] = "none"
                  /\ cardName[ops[j].card] = want[j].name
                  /\ cardList[ops[j].card] =
                       (IF want[j].state = "complete" THEN DoneList ELSE ToDoList)
             /\ \A c \in CardIds : h[w].pre[c] # "none" => cardList[c] = h[w].pre[c]

\* Items A (incomplete) and B (complete) of one checklist, no card anywhere:
\* card A was created in To Do and card B in Done.
C2_Witness ==
  \E w \in Workers :
    /\ Succeeded(w) /\ IsActivate(h[w].req) /\ NoItemHasCard(w)
    /\ ItemsAtStart(w) = <<  <<[name |-> "A", state |-> "incomplete"],
                              [name |-> "B", state |-> "complete"]>>  >>
    /\ NamesOn(h[w].pre, TrackLists) = {}
    /\ NamesOn(cardList, {ToDoList}) = {"A"}
    /\ NamesOn(cardList, {DoneList}) = {"B"}

\* C3: an activation makes no card operation on behalf of a checklist whose
\* items were all complete when it started.
C3_CompleteChecklistSkipped ==
  \A w \in Workers :
    (h[w].pc # "idle" /\ IsActivate(h[w].req))
      => \A j \in 1..Len(h[w].ops) : ~AllComplete(ItemsAtStart(w)[h[w].ops[j].cl])

\* An activation returned nil for a card with an entirely complete checklist
\* whose item has a card in Storage, and a second checklist it made cards for.
C3_Witness ==
  \E w \in Workers :
    /\ Succeeded(w) /\ IsActivate(h[w].req)
    /\ h[w].ops # <<>>
    /\ \E k \in 1..Len(ItemsAtStart(w)) :
         /\ ItemsAtStart(w)[k] # <<>>
         /\ AllComplete(ItemsAtStart(w)[k])
         /\ ItemsAtStart(w)[k][1].name \in NamesOn(h[w].pre, {StorageList})
         /\ ItemsAtStart(w)[k][1].name \in NamesOn(cardList, {StorageList})

\* The activation being answered follows a successful deactivation of the
\* same card.
ActivationAfterDeactivation(w) ==
  /\ Succeeded(w) /\ IsActivate(h[w].req)
  /\ IsDeactivate(last.req) /\ last.req.card = h[w].req.card /\ last.err = "nil"

\* C4 as claimed: deactivation then activation leaves To Do and Done with the
\* set of card names they held before the deactivation.
C4_Original ==
  \A w \in Workers :
    ActivationAfterDeactivation(w)
      => NamesOn(cardList, {ToDoList, DoneList}) = NamesOn(last.pre, {ToDoList, DoneList})

\* C4 as amended: after deactivation then activation, To Do and Done hold
\* every card name they held before, except names that are items only of
\* entirely complete checklists, and the names they gained are names of items
\* of checklists that are not entirely complete.
C4_DeactivateActivate ==
  \A w \in Workers :
    ActivationAfterDeactivation(w)
      => LET before == NamesOn(last.pre, {ToDoList, DoneList})
             after == NamesOn(cardList, {ToDoList, DoneList})
             all == ItemNames(ItemsAtStart(w))
             tracked == TrackedNames(ItemsAtStart(w))
         IN  /\ before \ (all \ tracked) \subseteq after
             /\ after \subseteq before \cup tracked

\* Cards A and B were on To Do and Done, went to Storage and came back.
C4_Witness ==
  \E w \in Workers :
    /\ ActivationAfterDeactivation(w)
    /\ NamesOn(last.pre, {ToDoList, DoneList}) = {"A", "B"}
    /\ Len(last.ops) = 2
    /\ Len(h[w].ops) = 2
    /\ NamesOn(cardList, {ToDoList, DoneList}) = {"A", "B"}

IsItemChange(r, state) == r.objType = "card" /\ r.ciState = state

\* A card of the item's name was on the list when the request arrived.
HadCard(w, l) == h[w].req.ciName \in NamesOn(h[w].pre, {l})

\* The handler made exactly one card operation, of the given kind, on a card
\* of the item's name, and no other card changed list.
OnlyOp(w, kind, from, to) ==
  /\ Len(h[w].ops) = 1
  /\ h[w].ops[1].op = kind
  /\ h[w].ops[1].from = from
  /\ h[w].ops[1].to = to
  /\ h[w].pre[h[w].ops[1].card] = from
  /\ cardName[h[w].ops[1].card] = h[w].req.ciName
  /\ cardList = [h[w].pre EXCEPT ![h[w].ops[1].card] = to]

\* C5: a check item reported complete whose card is on To Do: the handler
\* returns nil having moved exactly one card, of that name, from To Do to
\* Done, created none and left every other card where it was; when a remote
\* call fails it returns the error and no card has changed.
C5_CompleteMovesCard ==
  \A w \in Workers :
    (Finished(w) /\ IsItemChange(h[w].req, "complete") /\ HadCard(w, ToDoList))
      => IF h[w].failed
         THEN h[w].err # "nil" /\ h[w].ops = <<>> /\ cardList = h[w].pre
         ELSE h[w].err = "nil" /\ OnlyOp(w, "move", ToDoList, DoneList)

\* The card moved to Done while a second card stayed where it was.
C5_Witness ==
  \E w \in Workers :
    /\ Succeeded(w) /\ IsItemChange(h[w].req, "complete") /\ HadCard(w, ToDoList)
    /\ h[w].ops # <<>>
    /\ \E c \in CardIds : c # h[w].ops[1].card /\ cardList[c] = ToDoList

\* C6: a check item reported complete with no card of its name on To Do: the
\* handler returns an error, NotFound when the search of To Do itself did not
\* fail, and neither creates nor moves a card.
C6_CompleteWithoutCard ==
  \A w \in Workers :
    (Finished(w) /\ IsItemChange(h[w].req, "complete") /\ ~HadCard(w, ToDoList))
      => /\ h[w].err # "nil"
         /\ h[w].resp = 500
         /\ ~h[w].failed => h[w].err = "NotFound"
         /\ h[w].ops = <<>>
         /\ cardList = h[w].pre

\* NotFound was returned although a card of that name is on Done.
C6_Witness ==
  \E w \in Workers :
    /\ Finished(w) /\ IsItemChange(h[w].req, "complete") /\ ~HadCard(w, ToDoList)
    /\ HadCard(w, DoneList)
    /\ h[w].err = "NotFound"

\* C7: a check item reported incomplete, no remote call failing: with no card
\* of its name on To Do or Done exactly one card of that name is created, on
\* To Do, and none is moved; with such a card on Done one is moved to To Do
\* and none is created.
C7_IncompleteRestoresCard ==
  \A w \in Workers :
    (Finished(w) /\ IsItemChange(h[w].req, "incomplete") /\ ~h[w].failed)
      => /\ h[w].err = "nil"
         /\ (~HadCard(w, ToDoList) /\ ~HadCard(w, DoneList))
              => OnlyOp(w, "create", "none", ToDoList)
         /\ HadCard(w, DoneList) => OnlyOp(w, "move", DoneList, ToDoList)

\* A card was moved from Done to To Do for one item, then a card was created
\* on To Do for an item that had none.
C7_Witness ==
  \E w \in Workers :
    /\ Succeeded(w) /\ IsItemChange(h[w].req, "incomplete") /\ ~h[w].failed
    /\ ~HadCard(w, ToDoList) /\ ~HadCard(w, DoneList)
    /\ Len(h[w].ops) = 1 /\ h[w].ops[1].op = "create"
    /\ IsItemChange(last.req, "incomplete")
    /\ Len(last.ops) = 1 /\ last.ops[1].op = "move" /\ last.ops[1].from = DoneList

\* The board is as it was when the request arrived.
NothingChanged(w) ==
  /\ h[w].ops = <<>>
  /\ cardName = [c \in CardIds |-> IF h[w].pre[c] = "none" THEN "" ELSE cardName[c]]
  /\ cardList = h[w].pre
  /\ checklists = h[w].preItems
  /\ webhooks = h[w].preHooks

IsReconciliation(r) == IsActivate(r) \/ IsDeactivate(r)

\* C9: every card move and creation of a reconciliation is made while the
\* Done list's webhook, if registered, is inactive.
C9_MovesWhileSuppressed ==
  \A w \in Workers :
    (h[w].pc # "idle" /\ IsReconciliation(h[w].req))
      => \A j \in 1..Len(h[w].ops) : ~h[w].ops[j].hook

\* C10: a reconciliation that deactivated the Done list's webhook and returned
\* nil has left that webhook active.
C10_DoneHookReactivated ==
  \A w \in Workers :
    (Succeeded(w) /\ IsReconciliation(h[w].req) /\ h[w].suppressed)
      => DoneHookActive

\* No model has two webhooks in the registry.
OneHookPerModel ==
  \A i, j \in 1..Len(webhooks) : webhooks[i].model = webhooks[j].model => i = j

\* C11: the registry starting with at most one webhook per model, it holds
\* at most one per model during and after the startup pass and the
\* activations and deactivations handled one at a time after it.
C11_OneWebhookPerModel == OneHookPerModel

\* After the startup pass an activation returned nil for a card that had a
\* webhook, and the registry is as long as it was.
C11_Witness ==
  /\ Booted
  /\ Succeeded("w1") /\ IsActivate(h["w1"].req)
  /\ HasWebhook(h["w1"].req.card, h["w1"].preHooks)
  /\ Len(webhooks) = Len(h["w1"].preHooks)
  /\ Len(webhooks) >= 3

\* SetupActiveProjectCard was called for a list change or by main.
IsSetup(r) == IsActivate(r) \/ r.objType = "boot"

HookActive(id) == HasWebhook(id, webhooks) /\ webhooks[FindWebhook(webhooks, id)].active

\* C12: after SetupActiveProjectCard returns nil the card has a registered,
\* active webhook; after StoreInactiveProjectCard returns nil the card's
\* webhook, if registered, is inactive; and deactivation returns nil whenever
\* no remote call failed, a webhook being registered or not.
C12_CardWebhookState ==
  \A w \in Workers :
    /\ (Succeeded(w) /\ IsSetup(h[w].req)) => HookActive(h[w].req.card)
    /\ (Succeeded(w) /\ IsDeactivate(h[w].req)) => ~HookActive(h[w].req.card)
    /\ (Finished(w) /\ IsDeactivate(h[w].req) /\ ~h[w].failed) => h[w].err = "nil"

\* A card's webhook was activated by an activation and is inactive after the
\* deactivation that followed; deactivating a card with no webhook succeeded.
C12_Witness ==
  /\ Succeeded("w1") /\ IsDeactivate(h["w1"].req)
  /\ IsActivate(last.req) /\ last.err = "nil"
  /\ \/ /\ last.req.card = h["w1"].req.card
        /\ HasWebhook(h["w1"].req.card, webhooks)
        /\ h["w1"].preHooks[FindWebhook(webhooks, h["w1"].req.card)].active
     \/ ~HasWebhook(h["w1"].req.card, webhooks)

\* C13: a handling in which a remote call failed is answered 500, and once
\* a remote call of a handling has failed that handling changes no card, no
\* check item and no webhook.
C13_FirstFailureAborts ==
  /\ [](\A w \in Workers : (Finished(w) /\ h[w].failed) => h[w].resp = 500)
  /\ [][\A w \in Workers :
          (h[w].failed /\ h[w].pc \notin {"idle", "done"})
            => UNCHANGED <<cardName, cardList, checklists, webhooks>>]_vars

\* C14: a deactivation creates no card, its only card operations being moves
\* to Storage; it returns nil whenever no remote call failed, whichever
\* items have no card on To Do or Done; and when it returns nil every item
\* name that had a card on To Do or Done has a card in Storage.
C14_DeactivationSkipsMissing ==
  \A w \in Workers :
    (h[w].pc # "idle" /\ IsDeactivate(h[w].req))
      => /\ \A j \in 1..Len(h[w].ops) :
              h[w].ops[j].op = "move" /\ h[w].ops[j].to = StorageList
         /\ \A c \in CardIds : h[w].pre[c] = "none" => cardList[c] = "none"
         /\ (Finished(w) /\ ~h[w].failed) => h[w].err = "nil"
         /\ Succeeded(w)
              => \A n \in ItemNames(ItemsAtStart(w)) \cap NamesOn(h[w].pre, {ToDoList, DoneList}) :
                   n \in NamesOn(cardList, {StorageList})

\* The first item had no card anywhere, the second had one on To Do or Done:
\* the deactivation returned nil and the second item's card is in Storage.
C14_Witness ==
  \E w \in Workers :
    /\ Succeeded(w) /\ IsDeactivate(h[w].req)
    /\ Len(ItemsAtStart(w)) >= 1 /\ Len(ItemsAtStart(w)[1]) = 2
    /\ ItemsAtStart(w)[1][1].name \notin NamesOn(h[w].pre, TrackLists)
    /\ ItemsAtStart(w)[1][2].name \in NamesOn(h[w].pre, {ToDoList, DoneList})
    /\ Len(h[w].ops) = 1
    /\ cardName[h[w].ops[1].card] = ItemsAtStart(w)[1][2].name
    /\ cardList[h[w].ops[1].card] = StorageList

\* C15: when an activation returns nil, every item of a checklist that is
\* not entirely complete whose name a card in Storage had at the start has a
\* card of its name on its target list, Done if complete and To Do otherwise,
\* whichever other items had their cards on To Do or Done already.
C15_OnlyThatItemSkipped ==
  \A w \in Workers :
    (Succeeded(w) /\ IsActivate(h[w].req))
      => LET items == Tracked(ItemsAtStart(w), 1)
         IN  \A j \in 1..Len(items) :
               items[j].name \in NamesOn(h[w].pre, {StorageList})
                 => items[j].name \in NamesOn(cardList, {Target(items[j])})

\* C16: no step of an activation creates a card whose name a card on To Do
\* or Done has when the step is taken.
C16_NoDuplicateCreation ==
  [][\A w \in Workers :
       (/\ IsActivate(h[w].req)
        /\ Len(h'[w].ops) = Len(h[w].ops) + 1
        /\ h'[w].ops[Len(h'[w].ops)].op = "create")
         => cardName'[h'[w].ops[Len(h'[w].ops)].card]
              \notin NamesOn(cardList, {ToDoList, DoneList})]_vars

IsCardMove(r) == r.objType = "list" /\ (IsToDoToDone(r) \/ IsDoneToToDo(r))

\* The places <<a, k, i>> of the items of that name: item i of checklist k of
\* the a-th card on Active, as the checklists were on receipt.
Matches(w, name) ==
  {<<a, k, i>> \in (1..Len(ActiveCards)) \X (1..MaxChecklists) \X (1..MaxItems) :
     /\ k <= Len(h[w].preItems[ActiveCards[a]])
     /\ i <= Len(h[w].preItems[ActiveCards[a]][k])
     /\ h[w].preItems[ActiveCards[a]][k][i].name = name}

Before(x, y) ==
  \/ x[1] < y[1]
  \/ x[1] = y[1] /\ x[2] < y[2]
  \/ x[1] = y[1] /\ x[2] = y[2] /\ x[3] <= y[3]

FirstMatch(w, name) == CHOOSE x \in Matches(w, name) : \A y \in Matches(w, name) : Before(x, y)

C18_IncompleteErrors ==
  \A w \in Workers :
    (Finished(w) /\ IsItemChange(h[w].req, "incomplete"))
      => /\ (\E j \in 1..Len(h[w].ops) : h[w].ops[j].op = "create")
              => (~HadCard(w, DoneList) /\ ~HadCard(w, ToDoList))
         /\ (HadCard(w, ToDoList) /\ ~HadCard(w, DoneList) /\ ~h[w].failed)
              => (h[w].err = "nil" /\ h[w].ops = <<>> /\ cardList = h[w].pre)
         /\ h[w].failed
              => (h[w].err # "nil" /\ h[w].ops = <<>> /\ cardList = h[w].pre)

\* index read the body of the POST the worker is serving.
Routed(w) == h[w].pc # "idle" /\ h[w].http.objType # "" /\ h[w].err # "Read"

\* C19 as claimed: whatever the path type, a body of the list-change shape
\* is handled as a list change, and a body is handled as a check-item change
\* only when it is of that shape and not of the list-change shape.
C19_Original ==
  \A w \in Workers :
    Routed(w)
      => /\ h[w].req.objType = "list" <=> h[w].http.body.okList
         /\ h[w].req.objType = "card" <=> (~h[w].http.body.okList /\ h[w].http.body.okItem)

\* C19 as amended: the path type alone picks the shape tried.  A POST on
\* /list/<id> is handled as a list change if its body decodes as one, a POST
\* on /card/<id> as a check-item change if its body decodes as one, the
\* handler getting the body's fields; any other POST goes to the recorder.
C19_PathPicksShape ==
  \A w \in Workers :
    Routed(w)
      => LET t == h[w].http.objType
             b == h[w].http.body
         IN  /\ h[w].req.objType = "list" <=> (t = "list" /\ b.okList)
             /\ h[w].req.objType = "card" <=> (t = "card" /\ b.okItem)
             /\ h[w].req.objType = "raw" <=> ~((t = "list" /\ b.okList) \/ (t = "card" /\ b.okItem))
             /\ h[w].req.objType = "list"
                  => h[w].req = ListReq(b.before, b.after, b.card)
             /\ h[w].req.objType = "card"
                  => h[w].req = ItemReq(b.card, b.ciName, b.ciState)

\* A body of both shapes posted on /card/<id> was handled as a check-item
\* change: the card of that name went from To Do to Done.
C19_Witness ==
  \E w \in Workers :
    /\ Succeeded(w) /\ Routed(w)
    /\ h[w].http.objType = "card"
    /\ h[w].http.body.okList /\ h[w].http.body.okItem
    /\ h[w].http.body.after = StorageList
    /\ IsItemChange(h[w].req, "complete")
    /\ Len(h[w].ops) = 1 /\ h[w].ops[1].to = DoneList

\* C20: a POST whose body matches neither shape, no call failing: one file
\* is recorded for (objType, objID), it holds the bytes of the body, no card,
\* check item or webhook changed and the response is 204.
C20_FallbackRecorder ==
  \A w \in Workers :
    (Finished(w) /\ Routed(w) /\ ~h[w].failed
       /\ ~h[w].http.body.okList /\ ~h[w].http.body.okItem)
      => /\ files = <<[objType |-> h[w].http.objType, objID |-> h[w].http.objID,
                       bytes |-> h[w].http.body.text]>>
         /\ NothingChanged(w)
         /\ h[w].resp = 204

\* The models the startup pass watches: the two lists and the cards on Active.
Watched == {ActiveId, DoneId} \cup {p \in ProjectIds : projList[p] = ActiveList}

\* C21: when the startup pass has completed, the Active list, the Done list
\* and every card on Active have a registered, active webhook; and all of
\* them are registered when the pass calls SetupActiveProjectCard.
C21_StartupHooksActive ==
  /\ Booted => \A m \in Watched : HookActive(m)
  /\ h[Starter].req.objType = "boot" => \A m \in Watched : HasWebhook(m, webhooks)

\* C22: once a remote call of the startup pass has failed the process has
\* been terminated.
C22_StartupFailureFatal == nFail > 0 => h[Starter].pc = "fatal"

\* The webhook the registry has for the model: none, active or inactive.
HookState(ws, id) ==
  IF ~HasWebhook(id, ws) THEN "none"
  ELSE IF ws[FindWebhook(ws, id)].active THEN "active" ELSE "inactive"

\* C23: an activation creates and activates the card's webhook after its
\* last card operation: at every move or creation it makes, the card's
\* webhook is as it was when the request arrived.
C23_CardWebhookLast ==
  [][\A w \in Workers :
       (IsActivate(h[w].req) /\ Len(h'[w].ops) > Len(h[w].ops))
         => HookState(webhooks, h[w].req.card) = HookState(h[w].preHooks, h[w].req.card)]_vars

\* C24: the registry starting with at most one webhook per model, no
\* interleaving of the startup pass with a handler leaves it with two
\* webhooks for one card.
C24_NoDoubleRegistration ==
  \A i, j \in 1..Len(webhooks) :
    (webhooks[i].model = webhooks[j].model /\ webhooks[i].model \in ProjectIds) => i = j

\* C25: when the startup pass and a handler reconcile at the same time and no
\* call fails, every card move and creation of either is made while the Done
\* list's webhook is inactive.
C25_OverlapKeepsSuppression ==
  \A w \in Workers :
    ((IsReconciliation(h[w].req) \/ h[w].req.objType = "boot") /\ nFail = 0)
      => \A j \in 1..Len(h[w].ops) : ~h[w].ops[j].hook

\* C26: an event the service posts for a change the engine made itself is
\* handled, when no call fails, without error and without a further change
\* of cards or check items.
C26_EchoEndsCleanly ==
  \A w \in Workers :
    (nEvents >= 2 /\ h[w].pc = "done" /\ nFail = 0)
      => /\ h[w].err = "nil"
         /\ h[w].ops = <<>>
         /\ cardList = h[w].pre
         /\ checklists = h[w].preItems

\* C27: after a deactivation reconciliation returned nil, no card named as an
\* item of the project's checklists is on To Do or Done.
C27_DeactivationStoresAll ==
  \A w \in Workers :
    (Succeeded(w) /\ IsDeactivate(h[w].req))
      => ItemNames(ItemsAtStart(w)) \cap NamesOn(cardList, {ToDoList, DoneList}) = {}

====
